---- MODULE Spec2Model ----
(***************************************************************************)
(* Document ingestion and retrieval of backend/app/rag.py, with the upload *)
(* handler and the re-chunk background task of backend/app/main.py.        *)
(*                                                                         *)
(* The specifications of the module share its variables; each leaves the  *)
(* variables of the other parts at their idle values:                      *)
(*   SpecChunk, SpecHeaded, SpecNested, SpecPaged, SpecOverlap             *)
(*                 chunk_text, the definition bound to the name at call    *)
(*                 time (rag.py:298-337, which rebinds rag.py:98-228), on  *)
(*                 several families of texts                               *)
(*   SpecSplit     the hard-split loop of chunk_text, step by step         *)
(*   SpecRetrieve, SpecWide                                                *)
(*                 retrieve_chunks_with_strategy and its helpers           *)
(*   SpecPlans     the plans of retrieve_chunks_with_strategy              *)
(*   SpecIngest    upload_document / process_document /                    *)
(*                 rechunk_all_documents on one event loop                 *)
(*   SpecRechunk, SpecRechunkLive                                          *)
(*                 concurrent re-chunk requests and their tasks            *)
(*   SpecChat      send_message / send_pool_message up to the LLM call     *)
(***************************************************************************)
EXTENDS Integers, Sequences, FiniteSets, TLC

VARIABLES
    \* ---- chunker (SpecChunk) ----
    ck_text,        \* the input text, a sequence of characters (in SpecSplit: para)
    ck_size,        \* chunk_size
    ck_overlap,     \* overlap
    ck_out,         \* the list chunk_text returned
    ck_pc,          \* "start" | "done" (in SpecSplit: "loop" | "done")
    \* ---- retrieve_chunks_with_strategy (SpecRetrieve) ----
    r_args,         \* [chat_id, pool_id, intent, nkw, settings]: the call's arguments
    r_pc,           \* position in retrieve_chunks_with_strategy
    r_plan,         \* index of the (top_k, threshold) plan being run
    r_vec,          \* vector_chunks / chunks of the current plan
    r_kw,           \* state of _keyword_supplement_chunks, see NoKw
    r_merged,       \* per plan run so far, its merged vector + keyword result
    r_calls,        \* the searches issued, in order
    r_rerank,       \* state of _apply_optional_rerank, see NoRerank
    r_result,       \* the list returned
    r_outcome,      \* "running" | "returned" | "raised"
    r_store,        \* app_documents: document id -> [user_id, chat_id, pool_id]
    \* ---- ingestion on the event loop (SpecIngest) ----
    i_docs,         \* app_documents: document id -> row
    i_rows,         \* app_document_chunks: the rows stored
    i_up,           \* per document, the upload_document request that creates it
    i_rc,           \* per accepted re-chunk request, its _run_rechunk_task
    i_status,       \* main._rechunk_status
    i_cpu,          \* the re-chunk task running between two awaits, or 0
    \* ---- send_message / send_pool_message (SpecChat) ----
    h_args,         \* [handler, image_mode, intent, image_query]: the request
    h_pc,           \* position in the handler
    h_stored,       \* the user message has been stored
    h_chunks,       \* chunks: the chunks the retrieval gave, by id
    h_ctx,          \* the contexts injected into llm_messages, in order
    h_has_doc_context,
    h_image_calls,  \* the calls of search_similar_assets, each with its scope
    h_failed,       \* the steps that raised
    h_outcome,      \* "running" | "llm_called" | "raised"
    \* ---- the plans of retrieve_chunks_with_strategy (SpecPlans) ----
    p_cfg,          \* [top_k, threshold]: RAG_TOP_K, RAG_SIMILARITY_THRESHOLD
    p_args,         \* [chat_id, intent]
    p_plans,        \* plans
    p_pc            \* "start" | "done"

ck_vars == <<ck_text, ck_size, ck_overlap, ck_out, ck_pc>>

r_vars == <<r_args, r_pc, r_plan, r_vec, r_kw, r_merged, r_calls, r_rerank,
            r_result, r_outcome, r_store>>

i_vars == <<i_docs, i_rows, i_up, i_rc, i_status, i_cpu>>

h_vars == <<h_args, h_pc, h_stored, h_chunks, h_ctx, h_has_doc_context,
            h_image_calls, h_failed, h_outcome>>

p_vars == <<p_cfg, p_args, p_plans, p_pc>>

vars == <<ck_vars, r_vars, i_vars, h_vars, p_vars>>

(***************************************************************************)
(* Bounds                                                                  *)
(***************************************************************************)
MaxTextLen == 6
MaxChunkSize == 4

(***************************************************************************)
(* Text: Python str as a sequence of characters. NL is "\n"; the letters   *)
(* and "#" are non-whitespace characters.                                  *)
(***************************************************************************)
NL == "NL"
Letters == {"a", "b"}
Chars == Letters \cup {NL}

\* Python's None, SQL's null
None == "None"

IsSpace(c) == c = NL \/ c = " "

Max(a, b) == IF a >= b THEN a ELSE b
Min(a, b) == IF a <= b THEN a ELSE b

\* s[:n]
Take(s, n) == SubSeq(s, 1, Min(n, Len(s)))
\* s[n:]
Drop(s, n) == SubSeq(s, Min(n, Len(s)) + 1, Len(s))
\* s[-n:] for n > 0
LastN(s, n) == SubSeq(s, Len(s) - Min(n, Len(s)) + 1, Len(s))

RECURSIVE LStrip(_)
LStrip(s) ==
    IF s # <<>> /\ IsSpace(Head(s)) THEN LStrip(Tail(s)) ELSE s

RECURSIVE RStrip(_)
RStrip(s) ==
    IF s # <<>> /\ IsSpace(s[Len(s)]) THEN RStrip(SubSeq(s, 1, Len(s) - 1)) ELSE s

\* str.strip()
Strip(s) == RStrip(LStrip(s))

\* str.split("\n\n"): non-overlapping separators, scanned left to right
RECURSIVE SplitParagraphs(_, _)
SplitParagraphs(s, acc) ==
    IF s = <<>> THEN <<acc>>
    ELSE IF Len(s) >= 2 /\ s[1] = NL /\ s[2] = NL
         THEN <<acc>> \o SplitParagraphs(Drop(s, 2), <<>>)
         ELSE SplitParagraphs(Tail(s), Append(acc, Head(s)))

(***************************************************************************)
(* chunk_text, rag.py:298-337 (character based; chunk_size and overlap are *)
(* counted in characters).                                                 *)
(***************************************************************************)

\* A hard split that stops as soon as the rest fits one chunk, losing it.
RECURSIVE HardSplit_DropTail(_, _, _, _)
HardSplit_DropTail(para, chunks, chunk_size, overlap) ==
    IF para = <<>> THEN chunks
    ELSE LET chunks2 == Append(chunks, Take(para, chunk_size))
             para2 == Drop(para, chunk_size)
         IN IF Len(para2) <= chunk_size THEN chunks2
            ELSE HardSplit_DropTail(para2, chunks2, chunk_size, overlap)

\* a hard split that steps one character less than chunk_size - overlap
RECURSIVE HardSplit_ShortStep(_, _, _, _)
HardSplit_ShortStep(para, chunks, chunk_size, overlap) ==
    IF para = <<>> THEN chunks
    ELSE LET chunks2 == Append(chunks, Take(para, chunk_size))
             para2 == Drop(para, Max(1, chunk_size - overlap - 1))
         IN IF Len(para2) <= overlap THEN chunks2
            ELSE HardSplit_ShortStep(para2, chunks2, chunk_size, overlap)

\* rag.py:319-323, the while loop over a paragraph longer than chunk_size
RECURSIVE HardSplit(_, _, _, _)
HardSplit(para, chunks, chunk_size, overlap) ==
    IF para = <<>> THEN chunks
    ELSE LET chunks2 == Append(chunks, Take(para, chunk_size))
             para2 == Drop(para, Max(0, chunk_size - overlap))
         IN IF Len(para2) <= overlap THEN chunks2
            ELSE HardSplit(para2, chunks2, chunk_size, overlap)

\* rag.py:308-332, one iteration of the loop over the paragraphs;
\* st = [chunks, current]
ParaStep(st, rawpara, chunk_size, overlap) ==
    LET para == Strip(rawpara)
        current == st.current
        chunks == st.chunks
        sep == <<NL, NL>>
    IN IF para = <<>> THEN st
       ELSE IF Len(current) + Len(para) + 2 <= chunk_size
       THEN [chunks |-> chunks,
             current |-> IF current # <<>> THEN current \o sep \o para ELSE para]
       ELSE LET flushed == IF current # <<>> THEN Append(chunks, current) ELSE chunks
            IN IF Len(para) > chunk_size
               THEN [chunks |-> HardSplit(para, flushed, chunk_size, overlap),
                     current |-> <<>>]
               ELSE IF flushed # <<>> /\ overlap > 0
                    THEN LET prev == flushed[Len(flushed)]
                             overlap_text == IF Len(prev) > overlap
                                             THEN LastN(prev, overlap) ELSE prev
                         IN [chunks |-> flushed,
                             current |-> overlap_text \o sep \o para]
                    ELSE [chunks |-> flushed, current |-> para]

RECURSIVE ParaLoop(_, _, _, _)
ParaLoop(paragraphs, st, chunk_size, overlap) ==
    IF paragraphs = <<>> THEN st
    ELSE ParaLoop(Tail(paragraphs),
                  ParaStep(st, Head(paragraphs), chunk_size, overlap),
                  chunk_size, overlap)

chunk_text(text, chunk_size, overlap) ==
    IF text = <<>> \/ Strip(text) = <<>> THEN <<>>
    ELSE LET st == ParaLoop(SplitParagraphs(text, <<>>),
                            [chunks |-> <<>>, current |-> <<>>],
                            chunk_size, overlap)
         IN IF st.current # <<>> THEN Append(st.chunks, st.current) ELSE st.chunks

(***************************************************************************)
(* SpecChunk: the inputs are drawn in Init, ChunkText applies the function *)
(***************************************************************************)
RECURSIVE SeqsUpTo(_, _)
SeqsUpTo(S, n) ==
    IF n = 0 THEN {<<>>}
    ELSE LET shorter == SeqsUpTo(S, n - 1)
         IN shorter \cup {Append(s, c) : s \in {t \in shorter : Len(t) = n - 1}, c \in S}

Texts == SeqsUpTo(Chars, MaxTextLen)

ChunkInit ==
    /\ ck_text \in Texts
    /\ ck_size \in 1..MaxChunkSize
    /\ ck_overlap \in 0..(ck_size - 1)
    /\ ck_out = <<>>
    /\ ck_pc = "start"

ChunkText ==
    /\ ck_pc = "start"
    /\ ck_out' = chunk_text(ck_text, ck_size, ck_overlap)
    /\ ck_pc' = "done"
    /\ UNCHANGED <<ck_text, ck_size, ck_overlap>>

ChunkIdle ==
    /\ ck_text = <<>>
    /\ ck_size = 1
    /\ ck_overlap = 0
    /\ ck_out = <<>>
    /\ ck_pc = "done"

(***************************************************************************)
(* Claims about chunk_text                                                 *)
(***************************************************************************)

\* C1: every chunk chunk_text returns has at most chunk_size characters
\* (0 <= overlap < chunk_size), the carried-over overlap included.
C1_ChunkSizeBound ==
    ck_pc = "done" =>
        \A i \in 1..Len(ck_out) : Len(ck_out[i]) <= ck_size

\* the text content: the non-whitespace characters, in order
NonWs(s) == SelectSeq(s, LAMBDA c : ~IsSpace(c))

\* The positions of the content D that the chunks cs[i..] can end at when the
\* chunks before them end at one of the positions ps: a chunk repeats at most
\* ov characters that precede the position and then continues the content.
RECURSIVE CoverEnds(_, _, _, _, _)
CoverEnds(D, cs, i, ps, ov) ==
    IF i > Len(cs) THEN ps
    ELSE LET c == NonWs(cs[i])
             next == {p + Len(c) - k : p \in ps, k \in 0..Min(ov, Len(c))}
             ok == {q \in next :
                      /\ q <= Len(D)
                      /\ q - Len(c) >= 0
                      /\ SubSeq(D, q - Len(c) + 1, q) = c}
         IN CoverEnds(D, cs, i + 1, ok, ov)

MaxSplitChunks == MaxTextLen + 1

SplitInit ==
    /\ ck_size \in 1..MaxChunkSize
    /\ ck_overlap \in 0..(MaxChunkSize + 1)
    \* rag.py:318: the loop is entered with a paragraph longer than chunk_size
    /\ ck_text \in {p \in SeqsUpTo(Letters, MaxTextLen) : Len(p) > ck_size}
    /\ ck_out = <<>>
    /\ ck_pc = "loop"

\* rag.py:319-323: while para: append para[:chunk_size]; cut para; break when
\* what is left is no longer than overlap
HardSplitIter ==
    /\ ck_pc = "loop"
    /\ Len(ck_out) < MaxSplitChunks
    /\ IF ck_text = <<>>
       THEN /\ ck_pc' = "done"
            /\ UNCHANGED <<ck_text, ck_out>>
       ELSE LET para2 == Drop(ck_text, Max(0, ck_size - ck_overlap))
            IN /\ ck_out' = Append(ck_out, Take(ck_text, ck_size))
               /\ ck_text' = para2
               /\ ck_pc' = IF Len(para2) <= ck_overlap THEN "done" ELSE "loop"
    /\ UNCHANGED <<ck_size, ck_overlap>>

\* C26: chunk_text terminates for every input text and every chunk_size >= 1
\* and overlap >= 0: the hard-split loop over an oversized paragraph strictly
\* shortens the remaining input on every iteration, also when
\* overlap >= chunk_size.
C26_HardSplitTerminates ==
    /\ [][ck_pc = "loop" => Len(ck_text') < Len(ck_text)]_ck_vars
    /\ <>(ck_pc = "done")

(***************************************************************************)
(* chunk_text on texts whose characters are pairwise distinct, so that the *)
(* text two chunks share shows which part of the input each of them holds  *)
(***************************************************************************)
MaxDistinctLen == 6

Alphabet == <<"a", "b", "c", "d", "e", "f", "g">>

\* between two characters: nothing, a line break, a paragraph break
Gaps == {<<>>, <<NL>>, <<NL, NL>>}

RECURSIVE DistinctTexts(_)
DistinctTexts(n) ==
    IF n = 1 THEN {<<Alphabet[1]>>}
    ELSE {t \o g \o <<Alphabet[n]>> : t \in DistinctTexts(n - 1), g \in Gaps}

\* rag.py:318-323: the hard-split loop ends for every paragraph of the text
HardSplitEnds(text, chunk_size, overlap) ==
    \/ overlap < chunk_size
    \/ \A i \in 1..Len(SplitParagraphs(text, <<>>)) :
          LET para == Strip(SplitParagraphs(text, <<>>)[i])
          IN Len(para) > chunk_size => Len(para) <= overlap

OverlapInit ==
    /\ ck_text \in UNION {DistinctTexts(n) : n \in 1..MaxDistinctLen}
    /\ ck_size \in 1..MaxChunkSize
    /\ ck_overlap \in 0..(MaxChunkSize + 1)
    /\ HardSplitEnds(ck_text, ck_size, ck_overlap)
    /\ ck_out = <<>>
    /\ ck_pc = "start"

\* the length of the longest end of a that is a beginning of b
SharedLen(a, b) ==
    LET ks == {k \in 0..Min(Len(a), Len(b)) : LastN(a, k) = Take(b, k)}
    IN CHOOSE k \in ks : \A j \in ks : j <= k

\* C25: for any two consecutive chunks, the text shared between the end of
\* the earlier chunk and the start of the later one is at most overlap in
\* size, both when the later chunk starts with the carried-over overlap and
\* when an oversized paragraph is hard-split.
C25_OverlapBound ==
    ck_pc = "done" =>
        \A i \in 1..(Len(ck_out) - 1) :
            SharedLen(ck_out[i], ck_out[i + 1]) <= ck_overlap

\* a hard-split paragraph followed by a paragraph that starts with the
\* carried-over overlap, each pair of chunks sharing overlap characters
C25_Witness ==
    /\ ck_pc = "done"
    /\ ck_overlap > 0
    /\ \E i \in 1..(Len(ck_out) - 2) :
          /\ SharedLen(ck_out[i], ck_out[i + 1]) = ck_overlap
          /\ SharedLen(ck_out[i + 1], ck_out[i + 2]) = ck_overlap
          /\ \E j \in 1..(Len(ck_out[i + 2]) - 1) :
                ck_out[i + 2][j] = NL /\ ck_out[i + 2][j + 1] = NL
          /\ \A j \in 1..Len(ck_out[i + 1]) : ck_out[i + 1][j] # NL


(***************************************************************************)
(* chunk_text on markdown documents: the texts are rendered from headed    *)
(* sections, as the OCR step delivers them, and chunked by the chunk_text  *)
(* process_document calls (rag.py:374, bound to rag.py:298-337)            *)
(***************************************************************************)
MaxSections == 2
HeadedChunkSize == 40

\* a section: a level-2 heading line and a non-empty body
Sections ==
    [title : Letters, body : {<<"a">>, <<"b">>, <<"a", NL, NL, "b">>}]

HeadingLine(section) == <<"#", "#", " ", section.title>>

\* the section as text: the heading line, sep, the body
RenderSection(section, sep) == HeadingLine(section) \o sep \o section.body

RECURSIVE RenderDoc(_, _)
RenderDoc(doc, sep) ==
    IF doc = <<>> THEN <<>>
    ELSE IF Len(doc) = 1 THEN RenderSection(doc[1], sep)
    ELSE RenderSection(doc[1], sep) \o sep \o RenderDoc(Tail(doc), sep)

HeadedDocs == SeqsUpTo(Sections, MaxSections) \ {<<>>}
LineSeps == {<<NL>>, <<NL, NL>>}

\* documents without a heading
PlainTexts == {<<"a">>, <<"a", NL, "b">>, <<"a", NL, NL, "b">>, <<NL, "a", " ", "b", NL>>}

HeadedInit ==
    /\ ck_text \in {RenderDoc(doc, sep) : doc \in HeadedDocs, sep \in LineSeps}
                       \cup PlainTexts
    /\ ck_size \in {HeadedChunkSize, HeadedChunkSize + 10}
    /\ ck_overlap \in {0, 5}
    /\ ck_out = <<>>
    /\ ck_pc = "start"

IsPrefix(p, s) == Len(p) <= Len(s) /\ SubSeq(s, 1, Len(p)) = p

\* C18: for a document of k headed sections with non-empty bodies and a
\* chunk_size large enough for every section, chunk_text as process_document
\* calls it returns exactly k chunks in document order, the i-th beginning
\* with the breadcrumb of the i-th heading; a document without headings that
\* fits chunk_size gives exactly one chunk, the full text without breadcrumb.
C18_OneChunkPerSection ==
    ck_pc = "done" =>
        /\ \A doc \in HeadedDocs, sep \in LineSeps :
              RenderDoc(doc, sep) = ck_text =>
                 /\ Len(ck_out) = Len(doc)
                 /\ \A i \in 1..Len(doc) : IsPrefix(HeadingLine(doc[i]), ck_out[i])
        /\ ck_text \in PlainTexts => ck_out = <<Strip(ck_text)>>

(***************************************************************************)
(* chunk_text on markdown with nested headings: headings of several levels *)
(* following each other, some immediately followed by the next heading.    *)
(* The expected breadcrumbs are built as rag.py:54-60 and 154-155 build    *)
(* them; the chunks are those of the chunk_text process_document calls.    *)
(***************************************************************************)
MaxHeadings == 3
MaxHeadingLevel == 3

\* a heading line and the body under it, empty when the next heading follows
\* immediately
Headings ==
    [level : 1..MaxHeadingLevel, title : Letters, body : {<<>>, <<"x">>}]

NestedDocs ==
    {doc \in SeqsUpTo(Headings, MaxHeadings) \ {<<>>} : doc[Len(doc)].body # <<>>}

\* "#" * lvl + " " + txt
HeadingText(h) == [i \in 1..h.level |-> "#"] \o <<" ", h.title>>

RenderHeading(h) ==
    IF h.body = <<>> THEN HeadingText(h) ELSE HeadingText(h) \o <<NL>> \o h.body

RECURSIVE RenderNested(_)
RenderNested(doc) ==
    IF Len(doc) = 1 THEN RenderHeading(doc[1])
    ELSE RenderHeading(doc[1]) \o <<NL>> \o RenderNested(Tail(doc))

NestedInit ==
    /\ ck_text \in {RenderNested(doc) : doc \in NestedDocs}
    /\ ck_size \in {HeadedChunkSize, HeadedChunkSize + 10}
    /\ ck_overlap \in {0, 5}
    /\ ck_out = <<>>
    /\ ck_pc = "start"

\* rag.py:54-60
RECURSIVE _breadcrumb(_)
_breadcrumb(stack) ==
    IF stack = <<>> THEN <<>>
    ELSE IF Len(stack) = 1 THEN HeadingText(stack[1])
    ELSE HeadingText(stack[1]) \o <<" ", ">", " ">> \o _breadcrumb(Tail(stack))

\* rag.py:154-155: the headings of the same or a deeper level are removed,
\* the new heading is pushed
PushHeading(heading_stack, h) ==
    SelectSeq(heading_stack, LAMBDA e : e.level < h.level) \o <<h>>

\* the heading stack after the first i heading lines of doc
RECURSIVE StackAt(_, _)
StackAt(doc, i) ==
    IF i = 0 THEN <<>> ELSE PushHeading(StackAt(doc, i - 1), doc[i])

\* rag.py:177-179: the chunk of a section is its breadcrumb, an empty line,
\* its content
WithBreadcrumb(bc, content) == bc \o <<NL, NL>> \o content

\* C23: after any sequence of heading lines the breadcrumb of a chunk lists
\* exactly the nearest enclosing heading of each shallower level, ending with
\* the section's own heading: a heading of level L removes every entry of
\* level >= L from the heading stack and is then pushed.
C23_BreadcrumbIsHeadingStack ==
    ck_pc = "done" =>
        \A doc \in NestedDocs :
            RenderNested(doc) = ck_text =>
                \A i \in 1..Len(doc) :
                    doc[i].body # <<>> =>
                        \E k \in 1..Len(ck_out) :
                            ck_out[k] = WithBreadcrumb(_breadcrumb(StackAt(doc, i)),
                                                       doc[i].body)

\* what precedes the first empty line of a chunk
RECURSIVE BreadcrumbOf(_, _)
BreadcrumbOf(chunk, acc) ==
    IF Len(chunk) < 2 THEN <<>>
    ELSE IF chunk[1] = NL /\ chunk[2] = NL THEN acc
    ELSE BreadcrumbOf(Tail(chunk), Append(acc, chunk[1]))

\* the headings of doc at the positions I, in order
HeadingsAt(doc, I) ==
    LET idx == SelectSeq([k \in 1..Len(doc) |-> k], LAMBDA k : k \in I)
    IN [n \in 1..Len(idx) |-> doc[idx[n]]]

\* the position of the first section with a body after position i
RECURSIVE NextNonEmpty(_, _)
NextNonEmpty(doc, i) ==
    IF doc[i + 1].body # <<>> THEN i + 1 ELSE NextNonEmpty(doc, i + 1)

\* C24: a section whose heading is immediately followed by another heading
\* gives no chunk of its own, and its heading is an entry of the breadcrumb of
\* the next section with a body, whatever the level of the following heading.
C24_EmptySectionInBreadcrumb ==
    ck_pc = "done" =>
        \A doc \in NestedDocs :
            RenderNested(doc) = ck_text =>
                /\ Len(ck_out) = Cardinality({i \in 1..Len(doc) : doc[i].body # <<>>})
                /\ \A i \in 1..(Len(doc) - 1) :
                      doc[i].body = <<>> =>
                          LET j == NextNonEmpty(doc, i)
                              k == Cardinality({n \in 1..j : doc[n].body # <<>>})
                          IN \E I \in SUBSET (1..j) :
                                /\ i \in I
                                /\ BreadcrumbOf(ck_out[k], <<>>) =
                                      _breadcrumb(HeadingsAt(doc, I))

(***************************************************************************)
(* chunk_text and the rows of process_document on OCR markdown with page   *)
(* markers: a line "<!-- page:N -->" before the heading of a section       *)
(***************************************************************************)
MaxPagedSections == 2
PagedChunkSize == 60

PageNumbers == {"1", "2"}

\* the marker line main.py:490 strips before summarising
PageMarker(n) ==
    <<"<", "!", "-", "-", " ", "p", "a", "g", "e", ":", n, " ", "-", "-", ">">>

\* a section and the marker in front of it, None when there is none
PagedSections ==
    [page : PageNumbers \cup {None}, title : Letters, body : {<<"x">>, <<"y">>}]

PagedDocs == SeqsUpTo(PagedSections, MaxPagedSections) \ {<<>>}

RenderPagedSection(sec) ==
    (IF sec.page = None THEN <<>> ELSE PageMarker(sec.page) \o <<NL>>)
        \o <<"#", "#", " ", sec.title, NL>> \o sec.body

RECURSIVE RenderPaged(_)
RenderPaged(doc) ==
    IF Len(doc) = 1 THEN RenderPagedSection(doc[1])
    ELSE RenderPagedSection(doc[1]) \o <<NL>> \o RenderPaged(Tail(doc))

PagedInit ==
    /\ ck_text \in {RenderPaged(doc) : doc \in PagedDocs}
    /\ ck_size \in {PagedChunkSize, PagedChunkSize + 10}
    /\ ck_overlap \in {0, 5}
    /\ ck_out = <<>>
    /\ ck_pc = "start"

\* rag.py:387-396: the row stored for chunk i of chunks has the keys
\* document_id, chunk_index, content, token_count and embedding; its
\* page_number column is left null
page_number(chunks, i) == None

ContainsSeq(s, sub) ==
    \E k \in 0..(Len(s) - Len(sub)) : SubSeq(s, k + 1, k + Len(sub)) = sub

\* the page current when section i of doc begins
RECURSIVE CurrentPage(_, _)
CurrentPage(doc, i) ==
    IF i = 0 THEN None
    ELSE IF doc[i].page # None THEN doc[i].page
    ELSE CurrentPage(doc, i - 1)

\* C30: a page marker line updates the current page and never becomes part
\* of a chunk's text, and each chunk is stored with the page number that was
\* current when its section began (null when no marker preceded it).
C30_PageMarkersOutOfBand ==
    ck_pc = "done" =>
        \A doc \in PagedDocs :
            RenderPaged(doc) = ck_text =>
                /\ \A k \in 1..Len(ck_out), n \in PageNumbers :
                      ~ContainsSeq(ck_out[k], PageMarker(n))
                /\ \A k \in 1..Min(Len(ck_out), Len(doc)) :
                      page_number(ck_out, k) = CurrentPage(doc, k)

(***************************************************************************)
(* Retrieval: retrieve_chunks_with_strategy, rag.py:583-666, with          *)
(* _keyword_supplement_chunks (468-536), _apply_optional_rerank (669-698)  *)
(* and _cohere_rerank (701-743). The chunk store and the providers are     *)
(* external: what they answer is drawn with \E.                            *)
(***************************************************************************)
RNumRows == 3
MaxHits == 2
MaxKeywords == 2

RAG_TOP_K == 5
\* RAG_SIMILARITY_THRESHOLD = 0.3, in thousandths
RAG_SIMILARITY_THRESHOLD == 300

\* A stored chunk row as the searches return it. Rows alternate between two
\* documents, so that the order of the ids is not the document order.
Row(id) == [id |-> id, document_id |-> (id % 2) + 1, chunk_index |-> id \div 2]
Rows == {Row(id) : id \in 1..RNumRows}
RDocIds == {r.document_id : r \in Rows}

Range(s) == {s[i] : i \in 1..Len(s)}
NoDup(s) == \A i, j \in 1..Len(s) : i # j => s[i] # s[j]

\* the user of the request, and another one
RUser == "u1"
OtherUser == "u2"

DocScope(user_id, chat_id, pool_id) ==
    [user_id |-> user_id, chat_id |-> chat_id, pool_id |-> pool_id]

\* the documents in the store and where they belong: to a conversation, to a
\* pool (whoever uploaded them), or to a user alone
StoreLayouts ==
    { <<DocScope(RUser, "c1", None), DocScope(RUser, "c1", None)>>,
      <<DocScope(RUser, None, "p1"), DocScope(OtherUser, None, "p1")>>,
      <<DocScope(RUser, None, None), DocScope(RUser, None, None)>>,
      <<DocScope(RUser, None, "p1"), DocScope(RUser, "c1", None)>>,
      <<DocScope(RUser, None, None), DocScope(RUser, "c1", None)>>,
      <<DocScope(OtherUser, None, None), DocScope(RUser, None, "p1")>>,
      <<DocScope(OtherUser, None, None), DocScope(RUser, None, None)>> }

\* the documents match_document_chunks searches for the parameters of
\* rag.py:425-434: one conversation's, one pool's, or the user's own
\* documents outside every conversation and pool
VectorScopeDocs(store, user_id, chat_id, pool_id) ==
    {d \in DOMAIN store :
        IF chat_id # None
        THEN store[d].user_id = user_id /\ store[d].chat_id = chat_id
        ELSE IF pool_id # None
        THEN store[d].pool_id = pool_id
        ELSE /\ store[d].user_id = user_id
             /\ store[d].chat_id = None
             /\ store[d].pool_id = None}

\* rag.py:487-494: the documents the keyword search reads
KeywordScopeDocs(store, user_id, chat_id, pool_id) ==
    {d \in DOMAIN store :
        IF pool_id # None
        THEN store[d].pool_id = pool_id
        ELSE IF chat_id # None
        THEN /\ store[d].user_id = user_id
             /\ store[d].pool_id = None
             /\ store[d].chat_id = chat_id
        ELSE /\ store[d].user_id = user_id
             /\ store[d].pool_id = None
             /\ store[d].chat_id = None}

\* what one store query can answer: rows, each at most once, best first
HitLists == {s \in SeqsUpTo(Rows, MaxHits) : NoDup(s)}

\* rag.py:602-614 for a configuration (top_k, threshold); thresholds in
\* thousandths
PlansFor(top_k, threshold, chat_id, intent) ==
    IF chat_id # None
    THEN << [top_k |-> 50, threshold |-> 0] >>
    ELSE IF intent = "summary"
    THEN << [top_k |-> Max(top_k, 8),
             threshold |-> Max((threshold * 7) \div 10, 80)],
            [top_k |-> Max(top_k * 2, 12), threshold |-> 0] >>
    ELSE << [top_k |-> top_k, threshold |-> threshold],
            [top_k |-> Max(top_k + 3, 8),
             threshold |-> Max((threshold * 6) \div 10, 80)] >>

\* rag.py:602-614 with the configuration of config.py
Plans(chat_id, intent) ==
    PlansFor(RAG_TOP_K, RAG_SIMILARITY_THRESHOLD, chat_id, intent)

RPlans == Plans(r_args.chat_id, r_args.intent)

\* rag.py:525 mutated: a row is kept although exclude_ids holds its id
RECURSIVE CollectRows_NoExclude(_, _, _, _)
CollectRows_NoExclude(rows, supplement, limit, exclude_ids) ==
    IF rows = <<>> THEN supplement
    ELSE LET row == Head(rows)
             seen_chunk_ids == {c.id : c \in Range(supplement)}
         IN IF row.id \in seen_chunk_ids
            THEN CollectRows_NoExclude(Tail(rows), supplement, limit, exclude_ids)
            ELSE LET supplement2 == Append(supplement, row)
                 IN IF Len(supplement2) >= limit THEN supplement2
                    ELSE CollectRows_NoExclude(Tail(rows), supplement2, limit,
                                               exclude_ids)

\* rag.py:523-532: the rows of one ILIKE answer that are neither excluded nor
\* already collected, appended until the limit is reached
RECURSIVE CollectRows(_, _, _, _)
CollectRows(rows, supplement, limit, exclude_ids) ==
    IF rows = <<>> THEN supplement
    ELSE LET row == Head(rows)
             seen_chunk_ids == {c.id : c \in Range(supplement)}
         IN IF row.id \in seen_chunk_ids \/ row.id \in exclude_ids
            THEN CollectRows(Tail(rows), supplement, limit, exclude_ids)
            ELSE LET supplement2 == Append(supplement, row)
                 IN IF Len(supplement2) >= limit THEN supplement2
                    ELSE CollectRows(Tail(rows), supplement2, limit, exclude_ids)

\* rag.py:660, "if chunks:" mutated so that no plan ends the loop
HasChunks_Never(chunks) == FALSE

\* rag.py:660, "if chunks:" mutated so that the first plan always returns
HasChunks_Always(chunks) == TRUE

\* rag.py:660, "if chunks:"
HasChunks(chunks) == chunks # <<>>

\* the sort key of rag.py:682
DocOrderKeyLeq(a, b) ==
    \/ a.document_id < b.document_id
    \/ a.document_id = b.document_id /\ a.chunk_index <= b.chunk_index

\* sorted(): stable, ascending by the key
RECURSIVE InsertSorted(_, _)
InsertSorted(s, x) ==
    IF s = <<>> THEN <<x>>
    ELSE IF DocOrderKeyLeq(s[Len(s)], x) THEN Append(s, x)
         ELSE Append(InsertSorted(SubSeq(s, 1, Len(s) - 1), x), s[Len(s)])

RECURSIVE SortLoop(_, _)
SortLoop(s, acc) ==
    IF s = <<>> THEN acc ELSE SortLoop(Tail(s), InsertSorted(acc, Head(s)))

\* a sort on chunk_index alone
RECURSIVE InsertByIndex(_, _)
InsertByIndex(s, x) ==
    IF s = <<>> THEN <<x>>
    ELSE IF s[Len(s)].chunk_index <= x.chunk_index THEN Append(s, x)
         ELSE Append(InsertByIndex(SubSeq(s, 1, Len(s) - 1), x), s[Len(s)])

RECURSIVE SortByIndexLoop(_, _)
SortByIndexLoop(s, acc) ==
    IF s = <<>> THEN acc ELSE SortByIndexLoop(Tail(s), InsertByIndex(acc, Head(s)))

SortedByDocOrder_IndexOnly(chunks) == SortByIndexLoop(chunks, <<>>)

\* rag.py:680-683
SortedByDocOrder(chunks) == SortLoop(chunks, <<>>)

\* rag.py:685-689
ClampCandidates(settings) == Max(5, Min(100, settings.rerank_candidates))
ClampTopN(settings) ==
    LET top_n == Max(1, Min(30, settings.rerank_top_n))
    IN IF top_n > ClampCandidates(settings) THEN ClampCandidates(settings) ELSE top_n

\* rag.py:732-739: the answer's indices mapped back to chunks, bad ones skipped
RECURSIVE MapReranked(_, _)
MapReranked(results, chunks) ==
    IF results = <<>> THEN <<>>
    ELSE LET idx == Head(results)
             rest == MapReranked(Tail(results), chunks)
         IN IF idx < 0 \/ idx >= Len(chunks) THEN rest
            ELSE <<chunks[idx + 1]>> \o rest

\* the settings object of the call: absent, or the admin's RAG settings
NoSettings ==
    [present |-> FALSE, rerank_enabled |-> FALSE, rerank_candidates |-> 50,
     rerank_top_n |-> 6]

RerankSettings ==
    {NoSettings} \cup [present : {TRUE}, rerank_enabled : BOOLEAN,
                       rerank_candidates : {50}, rerank_top_n : {1, 6}]

\* rag.py:674-675
RerankEnabled(settings) == settings.present /\ settings.rerank_enabled

\* vector: the vector hits of the pass; docs_raised, raised: whether reading
\* the documents raised and the keywords whose query raised; lexical: the
\* rows the last keyword query answered
NoKw ==
    [docs |-> {}, next |-> 1, supplement |-> <<>>, vector |-> <<>>,
     docs_raised |-> FALSE, raised |-> {}, lexical |-> <<>>]

\* rag.py:580 / 652, the concatenation mutated to put the keyword hits first
MergeSupplement_KeywordFirst(vector_chunks, kw_chunks) == kw_chunks \o vector_chunks

\* rag.py:574-580 / 646-652: vector_chunks + kw_chunks
MergeSupplement(vector_chunks, kw_chunks) == vector_chunks \o kw_chunks
\* call: how the rerank request ended ("none" while there was none)
NoRerank ==
    [applied |-> FALSE, cohere_called |-> FALSE, top_n |-> 0, subset |-> <<>>,
     call |-> "none"]

\* rag.py:698, "subset[:top_n]" mutated so that the fallback is not cut
RerankFallback_Uncut(subset, top_n) == subset

\* rag.py:698: what is returned when _cohere_rerank gave nothing
RerankFallback(subset, top_n) == Take(subset, top_n)

\* how the rerank request can end (rag.py:723-743): a 200 answer, another
\* status, or an exception
CohereOutcomes == {"ok", "status", "raise"}

RetrieveInit ==
    /\ r_args \in [chat_id : {None, "c1"}, pool_id : {None, "p1"},
                   intent : {"fact", "summary"}, nkw : 0..MaxKeywords,
                   settings : RerankSettings]
    /\ r_pc = "vector"
    /\ r_plan = 1
    /\ r_vec = <<>>
    /\ r_kw = NoKw
    /\ r_merged = <<>>
    /\ r_calls = <<>>
    /\ r_rerank = NoRerank
    /\ r_result = <<>>
    /\ r_outcome = "running"
    /\ r_store \in StoreLayouts

RetrieveIdle ==
    /\ r_args = [chat_id |-> None, pool_id |-> None, intent |-> "fact", nkw |-> 0,
                 settings |-> NoSettings]
    /\ r_pc = "done"
    /\ r_plan = 1
    /\ r_vec = <<>>
    /\ r_kw = NoKw
    /\ r_merged = <<>>
    /\ r_calls = <<>>
    /\ r_rerank = NoRerank
    /\ r_result = <<>>
    /\ r_outcome = "returned"
    /\ r_store = <<>>

\* the scope arguments the searches of the pass get: _search_chunks_hybrid
\* (rag.py:558, 564-571) passes the chat and no pool, the pool/global path
\* (rag.py:626-645) the pool and no chat
PassChat == IF r_args.chat_id # None THEN r_args.chat_id ELSE None
\* rag.py:570 mutated: _search_chunks_hybrid hands the pool on as well
PassPool_Always == r_args.pool_id

PassPool == IF r_args.chat_id # None THEN None ELSE r_args.pool_id

SearchCall(kind) ==
    [kind |-> kind, plan |-> r_plan, chat_id |-> PassChat, pool_id |-> PassPool,
     top_k |-> RPlans[r_plan].top_k, threshold |-> RPlans[r_plan].threshold]

\* rag.py:554-558 / 626-633: the query is embedded and match_document_chunks
\* answers
VectorSearchAnswers(answers) ==
    /\ r_pc = "vector"
    /\ \E hits \in answers :
          /\ r_vec' = hits
          /\ r_calls' = Append(r_calls, SearchCall("vector"))
          /\ r_pc' = IF r_args.nkw > 0 THEN "kw_docs" ELSE "plan_done"
          /\ r_kw' = [NoKw EXCEPT !.vector = hits]
    /\ UNCHANGED <<r_store, r_args, r_plan, r_merged, r_rerank, r_result, r_outcome>>

\* match_document_chunks answers with any rows of the documents in scope
VectorSearchReturns ==
    VectorSearchAnswers({h \in HitLists :
                            \A i \in 1..Len(h) :
                               h[i].document_id \in
                                  VectorScopeDocs(r_store, RUser, PassChat, PassPool)})

\* rag.py:448 / 554 / 435: generate_embeddings or the RPC raises; nothing in
\* retrieve_chunks_with_strategy catches it
VectorSearchRaises ==
    /\ r_pc = "vector"
    /\ r_calls' = Append(r_calls, SearchCall("vector"))
    /\ r_pc' = "done"
    /\ r_outcome' = "raised"
    /\ UNCHANGED <<r_store, r_args, r_plan, r_vec, r_kw, r_merged, r_rerank, r_result>>

\* rag.py:486-505: the ready documents in scope are read
KeywordDocs ==
    /\ r_pc = "kw_docs"
    /\ r_calls' = Append(r_calls, SearchCall("keyword"))
    /\ \E raises \in BOOLEAN,
          docs \in SUBSET KeywordScopeDocs(r_store, RUser, PassChat, PassPool) :
          IF raises \/ docs = {}
          THEN /\ r_kw' = [r_kw EXCEPT !.docs_raised = raises]
               /\ r_pc' = "plan_done"
          ELSE /\ r_kw' = [r_kw EXCEPT !.docs = docs]
               /\ r_pc' = "kw_query"
    /\ UNCHANGED <<r_store, r_args, r_plan, r_vec, r_merged, r_rerank, r_result, r_outcome>>

KwLimit == Max(4, RPlans[r_plan].top_k)

\* rag.py:511-534: the ILIKE query of the next keyword
KeywordQueryAnswers(answers) ==
    /\ r_pc = "kw_query"
    /\ r_kw.next <= r_args.nkw
    /\ Len(r_kw.supplement) < KwLimit
    /\ \E raises \in BOOLEAN, rows \in answers :
          r_kw' = [r_kw EXCEPT
                     !.next = @ + 1,
                     !.raised = IF raises THEN @ \cup {r_kw.next} ELSE @,
                     !.lexical = IF raises THEN <<>> ELSE rows,
                     !.supplement =
                        IF raises THEN @
                        ELSE CollectRows(rows, @, KwLimit,
                                         {c.id : c \in Range(r_vec)})]
    /\ UNCHANGED <<r_store, r_args, r_pc, r_plan, r_vec, r_merged, r_calls, r_rerank,
                   r_result, r_outcome>>

\* the ILIKE query answers with any rows of the documents read
KeywordQuery ==
    KeywordQueryAnswers({h \in HitLists :
                            \A i \in 1..Len(h) : h[i].document_id \in r_kw.docs})

\* rag.py:536, 572-580 / 646-652: the supplement is returned and appended
KeywordDone ==
    /\ r_pc = "kw_query"
    /\ r_kw.next > r_args.nkw \/ Len(r_kw.supplement) >= KwLimit
    /\ r_vec' = MergeSupplement(r_vec, r_kw.supplement)
    /\ r_pc' = "plan_done"
    /\ UNCHANGED <<r_store, r_args, r_plan, r_kw, r_merged, r_calls, r_rerank, r_result,
                   r_outcome>>

\* rag.py:660-666: the pass is over; return through _apply_optional_rerank,
\* go on to the next plan, or return []
PlanDone ==
    /\ r_pc = "plan_done"
    /\ r_merged' = Append(r_merged, r_vec)
    /\ IF HasChunks(r_vec)
       THEN /\ r_pc' = "rerank"
            /\ UNCHANGED <<r_plan, r_result, r_outcome>>
       ELSE IF r_plan < Len(RPlans)
       THEN /\ r_pc' = "vector"
            /\ r_plan' = r_plan + 1
            /\ UNCHANGED <<r_result, r_outcome>>
       ELSE /\ r_pc' = "done"
            /\ r_result' = <<>>
            /\ r_outcome' = "returned"
            /\ UNCHANGED r_plan
    /\ UNCHANGED <<r_store, r_args, r_vec, r_kw, r_calls, r_rerank>>

\* rag.py:674-696: _apply_optional_rerank up to the rerank request
ApplyOptionalRerank ==
    /\ r_pc = "rerank"
    /\ IF ~RerankEnabled(r_args.settings) \/ r_vec = <<>>
       THEN /\ r_result' = SortedByDocOrder(r_vec)
            /\ r_outcome' = "returned"
            /\ r_pc' = "done"
            /\ r_rerank' = [r_rerank EXCEPT !.applied = TRUE]
       ELSE LET candidates == ClampCandidates(r_args.settings)
                top_n == ClampTopN(r_args.settings)
            IN \E has_key \in BOOLEAN :
                 IF ~has_key
                 THEN /\ r_result' = Take(r_vec, top_n)
                      /\ r_outcome' = "returned"
                      /\ r_pc' = "done"
                      /\ r_rerank' = [r_rerank EXCEPT !.applied = TRUE, !.top_n = top_n,
                                                      !.call = "no_key"]
                 ELSE /\ r_pc' = "cohere"
                      /\ r_rerank' = [applied |-> TRUE, cohere_called |-> TRUE,
                                      top_n |-> top_n,
                                      subset |-> Take(r_vec, candidates),
                                      call |-> "none"]
                      /\ UNCHANGED <<r_result, r_outcome>>
    /\ UNCHANGED <<r_store, r_args, r_plan, r_vec, r_kw, r_merged, r_calls>>

\* rag.py:723-743 and 698: the rerank provider answers, or the call fails
CohereReturns ==
    /\ r_pc = "cohere"
    /\ \E call \in CohereOutcomes, results \in SeqsUpTo((-1)..RNumRows, MaxHits) :
          LET reranked == IF call # "ok" THEN <<>>
                          ELSE MapReranked(results, r_rerank.subset)
          IN /\ r_result' = IF reranked # <<>> THEN reranked
                            ELSE RerankFallback(r_rerank.subset, r_rerank.top_n)
             /\ r_rerank' = [r_rerank EXCEPT !.call = call]
    /\ r_outcome' = "returned"
    /\ r_pc' = "done"
    /\ UNCHANGED <<r_store, r_args, r_plan, r_vec, r_kw, r_merged, r_calls>>

(***************************************************************************)
(* Claims about retrieve_chunks_with_strategy                              *)
(***************************************************************************)

\* C3: the plans run in order and the first plan with a non-empty merged
\* result ends the loop: a search of plan j is issued only after every plan
\* before j ended with an empty merged result, and what is returned is drawn
\* from the merged result of the last plan run, the first non-empty one.
C3_FirstNonEmptyPlan ==
    /\ \A k \in 1..Len(r_calls) :
          /\ \A j \in 1..(r_calls[k].plan - 1) :
                j <= Len(r_merged) /\ r_merged[j] = <<>>
          /\ k > 1 => r_calls[k - 1].plan <= r_calls[k].plan
    /\ \A i \in 1..Len(r_merged) : r_merged[i] # <<>> => i = Len(r_merged)
    /\ (r_outcome = "returned" /\ r_pc = "done" /\ r_merged # <<>>) =>
          Range(r_result) \subseteq Range(r_merged[Len(r_merged)])

\* the second plan produced the returned chunks after an empty first plan
C3_Witness ==
    /\ r_pc = "done"
    /\ r_outcome = "returned"
    /\ Len(r_merged) = 2
    /\ r_merged[1] = <<>>
    /\ r_result # <<>>

AllPassesEmpty ==
    /\ Len(r_merged) = Len(RPlans)
    /\ \A i \in 1..Len(r_merged) : r_merged[i] = <<>>

\* C4: when every adaptive pass ends with no vector and no keyword chunk, the
\* call returns the empty list, raises nothing, and the reranker is not called.
C4_EmptyIsNotAnError ==
    AllPassesEmpty =>
        /\ r_pc = "done"
        /\ r_outcome = "returned"
        /\ r_result = <<>>
        /\ ~r_rerank.applied
        /\ ~r_rerank.cohere_called

\* two empty passes, the keyword search having run, with reranking enabled
C4_Witness ==
    /\ AllPassesEmpty
    /\ r_pc = "done"
    /\ Len(r_merged) = 2
    /\ \E k \in 1..Len(r_calls) : r_calls[k].kind = "keyword"
    /\ RerankEnabled(r_args.settings)

IsSortedByDocOrder(s) ==
    \A i \in 1..(Len(s) - 1) : DocOrderKeyLeq(s[i], s[i + 1])

Count(s, x) == Cardinality({i \in 1..Len(s) : s[i] = x})
IsPermutation(s, t) ==
    /\ Len(s) = Len(t)
    /\ \A x \in Range(s) \cup Range(t) : Count(s, x) = Count(t, x)

\* C10: with reranking disabled the returned list is sorted ascending by
\* (document_id, chunk_index) and is a permutation of the merged candidates of
\* the plan that was chosen.
C10_DocumentOrder ==
    (r_pc = "done" /\ r_outcome = "returned" /\ ~RerankEnabled(r_args.settings)
        /\ r_merged # <<>>) =>
        /\ IsSortedByDocOrder(r_result)
        /\ IsPermutation(r_result, r_merged[Len(r_merged)])

\* vector and keyword chunks came back out of document order and were sorted
C10_Witness ==
    /\ r_pc = "done"
    /\ r_outcome = "returned"
    /\ ~RerankEnabled(r_args.settings)
    /\ r_merged # <<>>
    /\ Len(r_result) >= 3
    /\ r_kw.supplement # <<>>
    /\ r_result # r_merged[Len(r_merged)]

\* the documents of the scope the caller asked for: the conversation when
\* chat_id is given, else the pool when pool_id is given, else the user's
\* documents outside every conversation and pool
RequestedScopeDocs ==
    {d \in DOMAIN r_store :
        IF r_args.chat_id # None
        THEN r_store[d].user_id = RUser /\ r_store[d].chat_id = r_args.chat_id
        ELSE IF r_args.pool_id # None
        THEN r_store[d].pool_id = r_args.pool_id
        ELSE /\ r_store[d].user_id = RUser
             /\ r_store[d].chat_id = None
             /\ r_store[d].pool_id = None}

\* C15: each retrieval uses exactly one scope and the keyword search of a
\* pass uses the scope of its vector search; no chunk found or returned
\* belongs to a document outside the requested scope, also when the caller
\* passes both chat_id and pool_id.
C15_OneScope ==
    /\ \A k \in 1..Len(r_calls) :
          /\ r_calls[k].chat_id = None \/ r_calls[k].pool_id = None
          /\ r_calls[k].chat_id = r_args.chat_id
          /\ r_calls[k].pool_id = (IF r_args.chat_id # None THEN None
                                   ELSE r_args.pool_id)
          /\ (r_calls[k].kind = "keyword") =>
                /\ k > 1
                /\ r_calls[k - 1].kind = "vector"
                /\ r_calls[k - 1].plan = r_calls[k].plan
                /\ r_calls[k - 1].chat_id = r_calls[k].chat_id
                /\ r_calls[k - 1].pool_id = r_calls[k].pool_id
    /\ r_kw.docs \subseteq RequestedScopeDocs
    /\ \A c \in Range(r_vec) \cup Range(r_kw.supplement) \cup Range(r_result) :
          c.document_id \in RequestedScopeDocs

\* both chat_id and pool_id were passed, the pool holds a document, and
\* chunks of the conversation found by both searches were returned
C15_Witness ==
    /\ r_args.chat_id # None /\ r_args.pool_id # None
    /\ \E d \in DOMAIN r_store : r_store[d].pool_id = r_args.pool_id
    /\ r_pc = "done"
    /\ r_kw.supplement # <<>>
    /\ r_kw.vector # <<>>
    /\ r_result # <<>>

\* the position of x in the list s, from 0
RECURSIVE RankIn(_, _)
RankIn(x, s) == IF Head(s) = x THEN 0 ELSE 1 + RankIn(x, Tail(s))

\* Reciprocal Rank Fusion with k = 60, the sum over the lists holding x of
\* 1 / (60 + rank + 1), times 61 * 62 * 63 * 64 to stay in the integers
RRFScore(x, lists) ==
    LET part(s) == IF x \in Range(s)
                   THEN (61 * 62 * 63 * 64) \div (60 + RankIn(x, s) + 1) ELSE 0
    IN part(lists[1]) + part(lists[2])

\* C16: when both the vector search and the lexical search of a pass return
\* results, the merged list holds the chunks of both in the order of their
\* Reciprocal Rank Fusion score (k = 60), highest first, so that a chunk in
\* both lists comes before the chunks found by one list at the same or a
\* worse rank.
C16_RRFOrder ==
    (/\ r_pc = "plan_done"
     /\ r_args.nkw = 1
     /\ r_kw.vector # <<>>
     /\ r_kw.lexical # <<>>) =>
        LET lists == <<r_kw.vector, r_kw.lexical>>
        IN /\ Range(r_vec) = Range(r_kw.vector) \cup Range(r_kw.lexical)
           /\ \A i, j \in 1..Len(r_vec) :
                 i < j => RRFScore(r_vec[i], lists) >= RRFScore(r_vec[j], lists)

\* the call went through the enabled branch of _apply_optional_rerank
RerankTaken ==
    /\ r_pc = "done"
    /\ r_outcome = "returned"
    /\ r_rerank.applied
    /\ RerankEnabled(r_args.settings)

\* C11: with reranking enabled, the list _apply_optional_rerank returns has
\* at most top_n elements (top_n clamped to 1..30 and to the candidate cap),
\* each of them one of the first candidate_cap candidates, whatever the
\* rerank provider answers.
C11_RerankBound ==
    RerankTaken =>
        /\ Len(r_result) <= ClampTopN(r_args.settings)
        /\ Range(r_result) \subseteq
              Range(Take(r_vec, ClampCandidates(r_args.settings)))

\* C12: with reranking enabled, when no rerank credential is configured,
\* the rerank call answers with a non-success status, or the call raises,
\* _apply_optional_rerank returns exactly the first top_n candidates in
\* their incoming order and does not raise.
C12_RerankFallback ==
    (/\ r_pc = "done"
     /\ r_rerank.applied
     /\ RerankEnabled(r_args.settings)
     /\ r_rerank.call \in {"no_key", "status", "raise"}) =>
        LET candidates == Max(5, Min(100, r_args.settings.rerank_candidates))
            top_n == Min(Max(1, Min(30, r_args.settings.rerank_top_n)), candidates)
        IN /\ r_outcome = "returned"
           /\ r_result = SubSeq(r_vec, 1, Min(top_n, Len(r_vec)))

\* the rerank call failed with more candidates at hand than top_n
C12_Witness ==
    /\ r_pc = "done"
    /\ RerankEnabled(r_args.settings)
    /\ r_rerank.call \in {"status", "raise"}
    /\ Len(r_vec) > r_args.settings.rerank_top_n
    /\ Len(r_result) = r_args.settings.rerank_top_n

\* the keyword search of the current pass failed somewhere
KeywordFailed == r_kw.docs_raised \/ r_kw.raised # {}

\* C13 as stated: if the keyword search fails in a pass, while the documents
\* in scope are resolved or while the chunks of a keyword are queried, the
\* failure is swallowed and the result of the pass is exactly the vector
\* search result of that pass.
C13_KeywordFailureVectorOnly ==
    (r_pc = "plan_done" /\ KeywordFailed) => r_vec = r_kw.vector

\* C13 amended: a keyword search failure never makes the retrieval raise;
\* when resolving the documents fails or the query of every keyword fails the
\* result of the pass is exactly the vector search result, and when only some
\* keyword queries fail it is the vector search result followed by the hits
\* of the other keywords.
C13_KeywordFailureSwallowed ==
    /\ (r_pc = "plan_done" /\ KeywordFailed) =>
          /\ SubSeq(r_vec, 1, Min(Len(r_kw.vector), Len(r_vec))) = r_kw.vector
          /\ SubSeq(r_vec, Len(r_kw.vector) + 1, Len(r_vec)) = r_kw.supplement
          /\ Range(r_kw.supplement) \cap Range(r_kw.vector) = {}
          /\ (r_kw.docs_raised \/ r_kw.raised = 1..r_args.nkw) => r_vec = r_kw.vector
    /\ r_outcome = "raised" => r_calls[Len(r_calls)].kind = "vector"

\* one keyword query failed and another one added hits to the vector result
C13_Witness ==
    /\ r_pc = "plan_done"
    /\ r_kw.raised # {}
    /\ r_kw.supplement # <<>>
    /\ r_kw.vector # <<>>
    /\ Len(r_vec) > Len(r_kw.vector)

(***************************************************************************)
(* Retrieval over a store of many chunks: the vector search answers with   *)
(* the best rows of a fixed ranking, as many as pass the threshold and at   *)
(* most match_count (rag.py:425-430); a keyword query answers with a run   *)
(* of rows, at most limit (rag.py:517).                                    *)
(***************************************************************************)
WideNumRows == 18
\* the keyword answers tried begin at every WindowStep-th row
WindowStep == 3

WideRows == [id \in 1..WideNumRows |-> Row(id)]

\* the rows of s that belong to the documents docs
InDocs(s, docs) == SelectSeq(s, LAMBDA r : r.document_id \in docs)

WideVectorAnswers ==
    {InDocs(Take(WideRows, n), VectorScopeDocs(r_store, RUser, PassChat, PassPool)) :
        n \in 0..Min(RPlans[r_plan].top_k, WideNumRows)}

WideKeywordAnswers ==
    {InDocs(SubSeq(WideRows, a, Min(a + len - 1, WideNumRows)), r_kw.docs) :
        a \in {1 + WindowStep * i : i \in 0..((WideNumRows - 1) \div WindowStep)},
        len \in {1, KwLimit}}

WideInit ==
    /\ r_args \in [chat_id : {None, "c1"}, pool_id : {None, "p1"},
                   intent : {"fact", "summary"}, nkw : 0..MaxKeywords,
                   settings : {st \in RerankSettings :
                                  ~RerankEnabled(st) /\ st.rerank_top_n = 6}]
    /\ r_pc = "vector"
    /\ r_plan = 1
    /\ r_vec = <<>>
    /\ r_kw = NoKw
    /\ r_merged = <<>>
    /\ r_calls = <<>>
    /\ r_rerank = NoRerank
    /\ r_result = <<>>
    /\ r_outcome = "running"
    \* both documents in one scope
    /\ r_store \in {st \in StoreLayouts : st[1].chat_id = st[2].chat_id
                                          /\ st[1].pool_id = st[2].pool_id}

WideVectorSearch == VectorSearchAnswers(WideVectorAnswers)

WideKeywordQuery == KeywordQueryAnswers(WideKeywordAnswers)

Ids(s) == [i \in 1..Len(s) |-> s[i].id]

\* C28: the merged candidate list of a retrieval pass contains no chunk id
\* twice: the keyword supplement never adds a chunk the vector search of the
\* pass returned nor one it already added for another keyword, it adds at
\* most max(4, top_k) chunks, and a pass yields at most top_k + max(4, top_k)
\* candidates when the vector search honours its limit.
C28_MergedCandidatesDistinct ==
    /\ NoDup(Ids(r_kw.supplement))
    /\ Range(Ids(r_kw.supplement)) \cap Range(Ids(r_kw.vector)) = {}
    /\ Len(r_kw.supplement) <= KwLimit
    /\ \A i \in 1..Len(r_merged) :
          /\ NoDup(Ids(r_merged[i]))
          /\ Len(r_merged[i]) <= RPlans[i].top_k + Max(4, RPlans[i].top_k)

\* a merged pass in which the second keyword's answer held a row of the
\* vector result, a row the first keyword had added, and a row that no
\* longer fitted the limit
C28_Witness ==
    /\ r_pc = "plan_done"
    /\ r_kw.next = 3
    /\ r_kw.raised = {}
    /\ r_vec = r_kw.vector \o r_kw.supplement
    /\ Len(r_kw.supplement) = KwLimit
    /\ \E row \in Range(r_kw.lexical) : row.id \in Range(Ids(r_kw.vector))
    /\ \E row \in Range(r_kw.lexical) :
          row.id \notin Range(Ids(r_kw.vector)) \cup Range(Ids(r_kw.supplement))
    /\ \E a, b \in 1..Len(r_kw.supplement) :
          /\ a < b
          /\ r_kw.supplement[a] \in Range(r_kw.lexical)
          /\ r_kw.supplement[b] \notin Range(r_kw.lexical)

\* C29: when reranking is disabled, retrieve_chunks_with_strategy returns at
\* most 15 chunks in every scope, also in conversation scope where the pass
\* retrieves up to 50 vector chunks plus the keyword supplement.
C29_CappedWithoutRerank ==
    (r_pc = "done" /\ r_outcome = "returned" /\ ~RerankEnabled(r_args.settings)) =>
        Len(r_result) <= 15

(***************************************************************************)
(* Ingestion: upload_document (main.py:963-1062), process_document         *)
(* (rag.py:372-413), rechunk_all_documents (rag.py:808-859) and its        *)
(* background task (main.py:1215-1256). The handlers and the background    *)
(* task are coroutines of one event loop: a task runs alone from one await *)
(* to the next (i_cpu), and the only await that lets another task in is    *)
(* the embedding request. Every store call may raise.                      *)
(***************************************************************************)
NDocs == 2
MaxRechunkTasks == 1
\* CHUNK_SIZE and CHUNK_OVERLAP (config.py:32-33, read from the environment)
\* at the scale of the texts below
IngestChunkSize == 2
IngestOverlap == 1

DocIds == 1..NDocs
TaskIds == 1..MaxRechunkTasks

\* the texts uploaded: upload_document refuses a blank text (main.py:1000)
IngestTexts == { <<"a">>, <<"a", NL, NL, "b">> }

AbsentDoc ==
    [status |-> "absent", chunk_count |-> 0, error_message |-> None, text |-> <<>>]

\* documents.py:508-530
create_document(docs, d, text) ==
    [docs EXCEPT ![d] = [status |-> "processing", chunk_count |-> 0,
                         error_message |-> None, text |-> text]]

\* documents.py:533-542: error_message is written only when it is truthy
update_document_status(docs, d, status, chunk_count, error_message) ==
    [docs EXCEPT ![d] =
        [@ EXCEPT !.status = status,
                  !.chunk_count = chunk_count,
                  !.error_message = IF error_message # None /\ error_message # ""
                                    THEN error_message ELSE @]]

\* what the embedding request can end with: an exception, whose str() may be
\* empty, or a list of vectors, as many as the provider chose to return
EmbedOutcomes(n) ==
    {[raises |-> TRUE, msg |-> msg, count |-> 0] : msg \in {"", "err"}}
    \cup {[raises |-> FALSE, msg |-> "", count |-> c] : c \in {k \in (n - 1)..(n + 1) : k >= 1}}

\* which of the store calls of a step succeed
DbFlags == [insert_ok : BOOLEAN, status_ok : BOOLEAN, error_status_ok : BOOLEAN]

UploadRun == [kind |-> "upload", k |-> 0]
RechunkRun(k) == [kind |-> "rechunk", k |-> k]

\* rag.py:379-413: process_document from the return of the embedding request;
\* n = len(chunks). The result: the tables, and whether an exception left.
process_document_resume(docs, rows, d, run, n, emb, db) ==
    IF emb.raises
    THEN [docs |-> IF db.error_status_ok
                   THEN update_document_status(docs, d, "error", 0, emb.msg)
                   ELSE docs,
          rows |-> rows, raised |-> TRUE]
    ELSE LET new == {[document_id |-> d, chunk_index |-> i, run |-> run] :
                        i \in 0..(Min(n, emb.count) - 1)}
         IN IF ~db.insert_ok
            THEN [docs |-> docs, rows |-> rows, raised |-> TRUE]
            ELSE IF ~db.status_ok
            THEN [docs |-> docs, rows |-> rows \cup new, raised |-> TRUE]
            ELSE [docs |-> update_document_status(docs, d, "ready", n, None),
                  rows |-> rows \cup new, raised |-> FALSE]

IdleUpload ==
    [pc |-> "idle", n |-> 0, resp |-> "none", embed_failed |-> FALSE,
     no_chunks |-> FALSE]

IdleRechunk ==
    [pc |-> "none", docs |-> <<>>, idx |-> 1, processed |-> 0, failed |-> 0,
     skipped |-> 0, calls |-> <<>>, n |-> 0, outcome |-> "none",
     cause |-> "none"]

IdleStatus == [state |-> "idle", progress |-> <<>>, result |-> <<>>]

IngestInit ==
    /\ i_docs = [d \in DocIds |-> AbsentDoc]
    /\ i_rows = {}
    /\ i_up = [d \in DocIds |-> IdleUpload]
    /\ i_rc = [k \in TaskIds |-> IdleRechunk]
    /\ i_status = IdleStatus
    /\ i_cpu = 0

IngestIdle == IngestInit

\* main.py:1005-1019 with rag.py:372-380: the document is created, chunked,
\* and the embedding request is sent
UploadStart(d) ==
    /\ i_cpu = 0
    /\ i_up[d].pc = "idle"
    /\ i_docs[d].status = "absent"
    /\ \E text \in IngestTexts, db \in DbFlags :
          LET created == create_document(i_docs, d, text)
              n == Len(chunk_text(text, IngestChunkSize, IngestOverlap))
          IN IF n = 0
             THEN IF db.error_status_ok
                  THEN /\ i_docs' = update_document_status(created, d, "error", 0,
                                                           "No text extracted")
                       /\ i_up' = [i_up EXCEPT ![d] =
                                     [@ EXCEPT !.pc = "post", !.resp = "ready",
                                               !.no_chunks = TRUE]]
                  ELSE /\ i_docs' = created
                       /\ i_up' = [i_up EXCEPT ![d] =
                                     [@ EXCEPT !.pc = "done", !.resp = "error",
                                               !.no_chunks = TRUE]]
             ELSE /\ i_docs' = created
                  /\ i_up' = [i_up EXCEPT ![d] = [@ EXCEPT !.pc = "embedding", !.n = n]]
    /\ UNCHANGED <<i_rows, i_rc, i_status, i_cpu>>

\* rag.py:380-413 and main.py:1017-1021, 1057-1060: the embedding request
\* ends and process_document runs to its end
UploadEmbedReturn(d) ==
    /\ i_cpu = 0
    /\ i_up[d].pc = "embedding"
    /\ \E emb \in EmbedOutcomes(i_up[d].n), db \in DbFlags :
          LET res == process_document_resume(i_docs, i_rows, d, UploadRun,
                                             i_up[d].n, emb, db)
          IN /\ i_docs' = res.docs
             /\ i_rows' = res.rows
             /\ i_up' = [i_up EXCEPT ![d] =
                           [@ EXCEPT !.pc = IF res.raised THEN "done" ELSE "post",
                                     !.resp = IF res.raised THEN "error" ELSE "ready",
                                     !.embed_failed = emb.raises]]
    /\ UNCHANGED <<i_rc, i_status, i_cpu>>

\* main.py:1023-1062: asset indexing and the summary; only the summary update
\* can raise into the outer handler
UploadPost(d) ==
    /\ i_cpu = 0
    /\ i_up[d].pc = "post"
    /\ \E summary_update_ok \in BOOLEAN :
          i_up' = [i_up EXCEPT ![d] =
                     [@ EXCEPT !.pc = "done",
                               !.resp = IF summary_update_ok THEN @ ELSE "error"]]
    /\ UNCHANGED <<i_docs, i_rows, i_rc, i_status, i_cpu>>

\* main.py:1242-1256: the request is accepted unless the state is "running"
AdminRechunk(k) ==
    /\ i_cpu = 0
    /\ i_rc[k].pc = "none"
    /\ \A j \in 1..(k - 1) : i_rc[j].pc # "none"
    /\ i_status.state # "running"
    /\ i_rc' = [i_rc EXCEPT ![k] = [@ EXCEPT !.pc = "queued"]]
    /\ UNCHANGED <<i_docs, i_rows, i_up, i_status, i_cpu>>

Total(k) == Len(i_rc[k].docs)

\* the documents rag.py:821-827 selects: those with a non-empty extracted_text
SelectDocs == SelectSeq([d \in DocIds |-> d],
                        LAMBDA d : i_docs[d].status # "absent" /\ i_docs[d].text # <<>>)

\* main.py:1218-1224 and rag.py:821-834: the task starts, reads the documents
\* and reports (0, total)
RechunkTaskStart(k) ==
    /\ i_cpu = 0
    /\ i_rc[k].pc = "queued"
    /\ \E select_ok \in BOOLEAN :
          IF select_ok
          THEN /\ i_rc' = [i_rc EXCEPT ![k] =
                             [@ EXCEPT !.pc = "loop", !.docs = SelectDocs, !.idx = 1,
                                       !.calls = <<0>>]]
               /\ i_status' = [state |-> "running",
                               progress |-> <<0, Len(SelectDocs)>>, result |-> <<>>]
               /\ i_cpu' = k
          ELSE /\ i_rc' = [i_rc EXCEPT ![k] =
                             [@ EXCEPT !.pc = "done", !.outcome = "raised",
                                       !.cause = "select"]]
               /\ i_status' = [state |-> "error", progress |-> <<>>, result |-> <<>>]
               /\ i_cpu' = 0
    /\ UNCHANGED <<i_docs, i_rows, i_up>>

\* main.py:1226-1227: on_progress writes into whatever _rechunk_status is now
OnProgress(status, done, total) == [status EXCEPT !.progress = <<done, total>>]

\* rag.py:849, 856-857: the document was processed
RechunkProcessed(k, docs1, rows1) ==
    LET done == i_rc[k].processed + 1 + i_rc[k].failed + i_rc[k].skipped
    IN /\ i_docs' = docs1
       /\ i_rows' = rows1
       /\ i_rc' = [i_rc EXCEPT ![k] =
                     [@ EXCEPT !.pc = "loop", !.processed = @ + 1, !.idx = @ + 1,
                               !.calls = Append(@, done)]]
       /\ i_status' = OnProgress(i_status, done, Total(k))
       /\ i_cpu' = k

\* rag.py:851-857 and main.py:1237-1239: the except clause of the loop body.
\* When its own status write raises, the exception leaves
\* rechunk_all_documents and ends the task.
RechunkFailed(k, d, docs1, rows1, error_status_ok) ==
    LET done == i_rc[k].processed + i_rc[k].failed + 1 + i_rc[k].skipped
    IN /\ i_rows' = rows1
       /\ IF error_status_ok
          THEN /\ i_docs' = update_document_status(docs1, d, "error", 0, "Re-chunk: err")
               /\ i_rc' = [i_rc EXCEPT ![k] =
                             [@ EXCEPT !.pc = "loop", !.failed = @ + 1, !.idx = @ + 1,
                                       !.calls = Append(@, done)]]
               /\ i_status' = OnProgress(i_status, done, Total(k))
               /\ i_cpu' = k
          ELSE /\ i_docs' = docs1
               /\ i_rc' = [i_rc EXCEPT ![k] =
                             [@ EXCEPT !.pc = "done", !.outcome = "raised",
                                       !.cause = "document"]]
               /\ i_status' = [state |-> "error", progress |-> <<>>, result |-> <<>>]
               /\ i_cpu' = 0

\* rag.py:836-848 with 372-380: the next document of the loop, up to the
\* embedding request
RechunkDocBegin(k) ==
    /\ i_cpu = k
    /\ i_rc[k].pc = "loop"
    /\ i_rc[k].idx <= Total(k)
    /\ LET d == i_rc[k].docs[i_rc[k].idx]
           text == Strip(i_docs[d].text)
       IN IF text = <<>>
          THEN LET done == i_rc[k].processed + i_rc[k].failed + i_rc[k].skipped + 1
               IN /\ i_rc' = [i_rc EXCEPT ![k] =
                                [@ EXCEPT !.skipped = @ + 1, !.idx = @ + 1,
                                          !.calls = Append(@, done)]]
                  /\ i_status' = OnProgress(i_status, done, Total(k))
                  /\ UNCHANGED <<i_docs, i_rows, i_cpu>>
          ELSE \E delete_ok \in BOOLEAN, handler_ok \in BOOLEAN, db \in DbFlags :
                 LET rows1 == IF delete_ok
                              THEN {r \in i_rows : r.document_id # d} ELSE i_rows
                     docs1 == IF delete_ok /\ db.status_ok
                              THEN update_document_status(i_docs, d, "processing", 0, None)
                              ELSE i_docs
                     n == Len(chunk_text(text, IngestChunkSize, IngestOverlap))
                 IN IF ~delete_ok \/ ~db.status_ok
                    THEN RechunkFailed(k, d, docs1, rows1, handler_ok)
                    ELSE IF n = 0
                    THEN \* rag.py:375-377: no chunks, the status write is the last step
                         IF db.error_status_ok
                         THEN RechunkProcessed(k,
                                 update_document_status(docs1, d, "error", 0,
                                                        "No text extracted"), rows1)
                         ELSE RechunkFailed(k, d, docs1, rows1, handler_ok)
                    ELSE /\ i_docs' = docs1
                         /\ i_rows' = rows1
                         /\ i_rc' = [i_rc EXCEPT ![k] =
                                       [@ EXCEPT !.pc = "embedding", !.n = n]]
                         /\ i_cpu' = 0
                         /\ UNCHANGED i_status
    /\ UNCHANGED i_up

\* rag.py:380-413 inside rag.py:848-857: the embedding request of the
\* document ends
RechunkEmbedReturn(k) ==
    /\ i_cpu = 0
    /\ i_rc[k].pc = "embedding"
    /\ LET d == i_rc[k].docs[i_rc[k].idx]
       IN \E emb \in EmbedOutcomes(i_rc[k].n), db \in DbFlags,
             handler_ok \in BOOLEAN :
            LET res == process_document_resume(i_docs, i_rows, d, RechunkRun(k),
                                               i_rc[k].n, emb, db)
            IN IF res.raised
               THEN RechunkFailed(k, d, res.docs, res.rows, handler_ok)
               ELSE RechunkProcessed(k, res.docs, res.rows)
    /\ UNCHANGED i_up

\* rag.py:859 and main.py:1230-1236: the loop is over, the counts are returned
RechunkReturn(k) ==
    /\ i_cpu = k
    /\ i_rc[k].pc = "loop"
    /\ i_rc[k].idx > Total(k)
    /\ i_rc' = [i_rc EXCEPT ![k] = [@ EXCEPT !.pc = "done", !.outcome = "returned"]]
    /\ i_status' = [state |-> "done", progress |-> <<>>,
                    result |-> <<i_rc[k].processed, i_rc[k].failed, i_rc[k].skipped,
                                 Total(k)>>]
    /\ i_cpu' = 0
    /\ UNCHANGED <<i_docs, i_rows, i_up>>

(***************************************************************************)
(* Claims about ingestion                                                  *)
(***************************************************************************)
\* no re-chunk task has touched the documents
NoRechunkYet == \A k \in TaskIds : i_rc[k].pc \in {"none", "queued"}

RowsOf(d) == {r \in i_rows : r.document_id = d}

\* C5: once the upload request of a document has completed, whether
\* process_document returned or raised at any of its steps, the persisted
\* status of the document is 'ready' with its chunk_count set or 'error'
\* with a message; the document is not left in 'processing'.
C5_NoDocumentLeftProcessing ==
    \A d \in DocIds :
        (i_up[d].pc = "done" /\ NoRechunkYet) =>
            \/ i_docs[d].status = "ready" /\ i_docs[d].chunk_count = i_up[d].n
            \/ i_docs[d].status = "error" /\ i_docs[d].error_message # None

\* C6: when chunking yields no chunks or the embedding call fails in
\* process_document, the persisted status of the document is 'error' with a
\* non-empty message, no chunk row is stored for it, and the upload handler
\* still returns a response for the document.
C6_EmbeddingFailureMarksError ==
    \A d \in DocIds :
        (i_up[d].pc \in {"post", "done"} /\ NoRechunkYet
            /\ (i_up[d].embed_failed \/ i_up[d].no_chunks)) =>
            /\ i_docs[d].status = "error"
            /\ i_docs[d].error_message # None
            /\ RowsOf(d) = {}
            /\ i_up[d].resp # "none"

\* C7: in every reachable state, the chunk rows stored for a document whose
\* status is 'ready' carry the indices 0..chunk_count-1, each exactly once,
\* whatever the length of the list the provider returned and however the
\* upload and the re-chunk of the same document interleave.
C7_ReadyRowsContiguous ==
    \A d \in DocIds :
        i_docs[d].status = "ready" =>
            /\ \A r \in RowsOf(d) : r.chunk_index \in 0..(i_docs[d].chunk_count - 1)
            /\ \A i \in 0..(i_docs[d].chunk_count - 1) :
                  Cardinality({r \in RowsOf(d) : r.chunk_index = i}) = 1

\* C8: a failure while one document is re-chunked is recorded for that
\* document (status 'error', failed count incremented) and the loop goes on:
\* rechunk_all_documents does not raise because of a document, and when it
\* has ended every document of the batch has been visited.
C8_BatchContinuesAfterFailure ==
    \A k \in TaskIds :
        /\ i_rc[k].cause # "document"
        /\ (i_rc[k].pc = "done" /\ i_rc[k].cause # "select") => i_rc[k].idx > Total(k)

\* C9: the progress callback receives (0, total) first, then done grows by
\* exactly 1 per document and equals processed + failed + skipped, the last
\* call has done = total, and the returned counts satisfy
\* processed + failed + skipped = total.
C9_ProgressAccounting ==
    \A k \in TaskIds :
        LET calls == i_rc[k].calls
            sum == i_rc[k].processed + i_rc[k].failed + i_rc[k].skipped
        IN /\ calls # <<>> =>
                /\ calls[1] = 0
                /\ \A i \in 1..(Len(calls) - 1) : calls[i + 1] = calls[i] + 1
                /\ i_rc[k].pc = "loop" => calls[Len(calls)] = sum
                /\ i_rc[k].pc = "done" => calls[Len(calls)] = Total(k)
           /\ i_rc[k].outcome = "returned" => sum = Total(k)

\* the documents a re-chunk task has handled so far
HandledDocs(k) == {i_rc[k].docs[j] : j \in 1..Min(i_rc[k].idx - 1, Total(k))}

\* C20: re-chunking never leaves a mix: in every state after
\* rechunk_all_documents has handled a document, the chunk rows of that
\* document all come from a single chunking run, also when the embedding call
\* or the insert failed after the delete.
C20_RowsOfOneRun ==
    \A k \in TaskIds : \A d \in HandledDocs(k) :
        \A r1, r2 \in RowsOf(d) : r1.run = r2.run

\* C27: the status upload_document returns for a document equals the status
\* persisted for it when the request ends: 'ready' only if the stored status
\* is 'ready', 'error' only if it is 'error', also when a step after
\* process_document or the chunk insert inside it fails.
C27_ResponseIsStoredStatus ==
    \A d \in DocIds :
        (i_up[d].pc = "done" /\ NoRechunkYet) =>
            /\ i_up[d].resp = "ready" => i_docs[d].status = "ready"
            /\ i_up[d].resp = "error" => i_docs[d].status = "error"

(***************************************************************************)
(* Concurrent re-chunk requests: POST /api/admin/rechunk-documents         *)
(* (main.py:1242-1256) arriving several times over a store that already    *)
(* holds documents. The background task of a request runs after its        *)
(* response was sent, so other handlers run between the acceptance of a    *)
(* request and the first statement of its task.                            *)
(***************************************************************************)
MaxRechunkRequests == 2

RequestIds == 1..MaxRechunkRequests

\* a document as a completed upload leaves it (main.py:1005-1021,
\* rag.py:372-413)
ReadyDoc(text) ==
    [status |-> "ready",
     chunk_count |-> Len(chunk_text(text, IngestChunkSize, IngestOverlap)),
     error_message |-> None, text |-> text]

StoredDocs == {AbsentDoc} \cup {ReadyDoc(text) : text \in IngestTexts}

RechunkInit ==
    /\ i_docs \in [DocIds -> StoredDocs]
    /\ i_rows = UNION {{[document_id |-> d, chunk_index |-> i, run |-> UploadRun] :
                           i \in 0..(i_docs[d].chunk_count - 1)} : d \in DocIds}
    /\ i_up = [d \in DocIds |->
                 IF i_docs[d].status = "absent" THEN IdleUpload
                 ELSE [IdleUpload EXCEPT !.pc = "done", !.n = i_docs[d].chunk_count,
                                         !.resp = "ready"]]
    /\ i_rc = [k \in RequestIds |-> IdleRechunk]
    /\ i_status = IdleStatus
    /\ i_cpu = 0

\* the re-chunk tasks that were accepted and have not ended
ActiveRechunks == {k \in DOMAIN i_rc : i_rc[k].pc \notin {"none", "done"}}

\* C21: at most one re-chunk background task runs at any time: a request that
\* arrives while a previously accepted re-chunk has not finished, also one
\* whose background task has not yet set the state to 'running', is rejected
\* and starts no second task.
C21_OneRechunkAtATime == Cardinality(ActiveRechunks) <= 1

\* the steps of an accepted re-chunk task: the event loop runs the task, and
\* every store call and embedding request of a document ends
RechunkTaskStep(k) ==
    \/ RechunkTaskStart(k)
    \/ RechunkDocBegin(k)
    \/ RechunkEmbedReturn(k)
    \/ RechunkReturn(k)

\* the progress field is present only in a status whose state is 'running'
ProgressOnlyWhileRunning == i_status.progress # <<>> => i_status.state = "running"

\* no task is between its first statement and its end and the state is
\* still 'running'
NotRunningAfterEnd ==
    (\A k \in DOMAIN i_rc : i_rc[k].pc \notin {"loop", "embedding"}) =>
        i_status.state # "running"

RunningEnds == (i_status.state = "running") ~> (i_status.state \in {"done", "error"})

\* C22: the re-chunk status is a state machine idle -> running -> (done |
\* error): once a task set the state to 'running', and every per-document
\* step terminates, the state eventually becomes 'done' or 'error', it never
\* stays 'running' after the task ended, and the progress field is only
\* written while the state is 'running'.
C22_StatusStateMachine ==
    /\ []ProgressOnlyWhileRunning
    /\ []NotRunningAfterEnd
    /\ RunningEnds

(***************************************************************************)
(* The chat handlers: send_message (main.py:536-699) and send_pool_message *)
(* (main.py:1840-1962), from the storing of the user message to the call   *)
(* of the LLM. The stores and the providers are external: whether a call   *)
(* raises and what it answers is drawn with \E.                            *)
(***************************************************************************)
MaxChatChunks == 1

ImageModes == {"auto", "on", "off"}

\* rag.py:286-295; image_query: the query holds one of IMAGE_QUERY_KEYWORDS
should_use_image_retrieval(image_query, image_mode) ==
    IF image_mode = "off" THEN FALSE
    ELSE IF image_mode = "on" THEN TRUE
    ELSE image_query

\* main.py:626-631 / 1914-1918
ShouldTryImages(args, chunks) ==
    \/ should_use_image_retrieval(args.image_query, args.image_mode)
    \/ args.image_mode = "auto" /\ args.intent = "summary"
    \/ args.image_mode = "auto" /\ chunks = {}

\* main.py:374-381: an empty context is not injected
Inject(ctx, kind, nonempty) == IF nonempty THEN Append(ctx, kind) ELSE ctx

\* main.py:598-599 / 1890-1891 mutated: the handler re-raises
AfterRetrievalFailure_Reraise == "raised"

\* main.py:598-599 / 1890-1891: the except clause logs and the handler goes on
AfterRetrievalFailure == "inject"

ChatInit ==
    /\ h_args \in [handler : {"send_message", "send_pool_message"},
                   image_mode : ImageModes, intent : {"fact", "summary"},
                   image_query : BOOLEAN]
    /\ h_pc = "store"
    /\ h_stored = FALSE
    /\ h_chunks = {}
    /\ h_ctx = <<>>
    /\ h_has_doc_context = FALSE
    /\ h_image_calls = <<>>
    /\ h_failed = {}
    /\ h_outcome = "running"

ChatIdle ==
    /\ h_args = [handler |-> "send_message", image_mode |-> "auto",
                 intent |-> "fact", image_query |-> FALSE]
    /\ h_pc = "done"
    /\ h_stored = FALSE
    /\ h_chunks = {}
    /\ h_ctx = <<>>
    /\ h_has_doc_context = FALSE
    /\ h_image_calls = <<>>
    /\ h_failed = {}
    /\ h_outcome = "llm_called"

\* main.py:567-578 / 1861-1870: the user message is stored, the history is
\* built and the image source policy injected
StoreUserMessage ==
    /\ h_pc = "store"
    /\ \E ok \in BOOLEAN :
          IF ok
          THEN /\ h_stored' = TRUE
               /\ h_ctx' = Inject(h_ctx, "image_policy", h_args.image_mode # "off")
               /\ h_pc' = "retrieve"
               /\ UNCHANGED <<h_failed, h_outcome>>
          ELSE /\ h_pc' = "done"
               /\ h_outcome' = "raised"
               /\ h_failed' = h_failed \cup {"store"}
               /\ UNCHANGED <<h_stored, h_ctx>>
    /\ UNCHANGED <<h_args, h_chunks, h_has_doc_context, h_image_calls>>

\* main.py:588-599 / 1880-1891: get_rag_settings and
\* retrieve_chunks_with_strategy inside one try
RetrieveForChat ==
    /\ h_pc = "retrieve"
    /\ \E failure \in {"none", "settings", "embedding", "vector", "rerank"},
          chunks \in SUBSET (1..MaxChatChunks) :
          IF failure = "none"
          THEN /\ h_chunks' = chunks
               /\ h_pc' = "inject"
               /\ UNCHANGED <<h_failed, h_outcome>>
          ELSE /\ h_chunks' = {}
               /\ h_failed' = h_failed \cup {failure}
               /\ IF AfterRetrievalFailure = "inject"
                  THEN h_pc' = "inject" /\ UNCHANGED h_outcome
                  ELSE h_pc' = "done" /\ h_outcome' = "raised"
    /\ UNCHANGED <<h_args, h_stored, h_ctx, h_has_doc_context, h_image_calls>>

\* main.py:602-631 / 1894-1918: the chunk context, or the list of the
\* documents, is injected and the image decision is taken. An exception
\* leaves the whole try block (main.py:675-676 / 1946-1947).
InjectContext ==
    /\ h_pc = "inject"
    /\ \E ok \in BOOLEAN, docs_context \in BOOLEAN :
          IF ~ok
          THEN /\ h_failed' = h_failed \cup {"inject"}
               /\ h_pc' = "fallback"
               /\ UNCHANGED <<h_ctx, h_has_doc_context>>
          ELSE /\ h_ctx' = IF h_chunks # {} THEN Inject(h_ctx, "rag", TRUE)
                           ELSE Inject(h_ctx, "documents", docs_context)
               /\ h_has_doc_context' = (h_chunks # {})
               /\ h_pc' = IF ShouldTryImages(h_args, h_chunks) THEN "image" ELSE "text"
               /\ UNCHANGED h_failed
    /\ UNCHANGED <<h_args, h_stored, h_chunks, h_image_calls, h_outcome>>

\* the scope arguments of search_similar_assets, main.py:635-638 / 1922-1925
AssetScope == IF h_args.handler = "send_message" THEN "chat_id" ELSE "pool_id"

\* main.py:633-659 / 1920-1936: the image asset search in its own try, then
\* its context and its sources
ImageSearch ==
    /\ h_pc = "image"
    /\ h_image_calls' = Append(h_image_calls, AssetScope)
    /\ \E raises \in BOOLEAN, assets \in BOOLEAN, sources_ok \in BOOLEAN :
          LET found == ~raises /\ assets
          IN /\ h_ctx' = Inject(h_ctx, "image", found)
             /\ h_has_doc_context' = (h_has_doc_context \/ found)
             /\ h_failed' = h_failed \cup (IF raises THEN {"image"} ELSE {})
                                     \cup (IF found /\ ~sources_ok THEN {"image_sources"} ELSE {})
             /\ h_pc' = IF found /\ ~sources_ok THEN "fallback" ELSE "text"
    /\ UNCHANGED <<h_args, h_stored, h_chunks, h_outcome>>

\* main.py:661-676 / 1938-1947: without document context so far, the texts
\* of the documents are injected
TextFallback ==
    /\ h_pc = "text"
    /\ \E ok \in BOOLEAN, text_context \in BOOLEAN :
          IF h_has_doc_context
          THEN UNCHANGED <<h_ctx, h_has_doc_context, h_failed>>
          ELSE IF ~ok
          THEN /\ h_failed' = h_failed \cup {"text"}
               /\ UNCHANGED <<h_ctx, h_has_doc_context>>
          ELSE /\ h_ctx' = Inject(h_ctx, "text", text_context)
               /\ h_has_doc_context' = text_context
               /\ UNCHANGED h_failed
    /\ h_pc' = "fallback"
    /\ UNCHANGED <<h_args, h_stored, h_chunks, h_image_calls, h_outcome>>

\* main.py:678-697 (send_message only), then 696-697 / 1949-1950: the list of
\* the conversation's documents as a last resort, then the access policy
HardFallback ==
    /\ h_pc = "fallback"
    /\ \E ok \in BOOLEAN, docs_context \in BOOLEAN :
          LET tried == h_args.handler = "send_message" /\ ~h_has_doc_context
              got == tried /\ ok /\ docs_context
              has == h_has_doc_context \/ got
          IN /\ h_ctx' = Inject(Inject(h_ctx, "documents", got), "access_policy", has)
             /\ h_has_doc_context' = has
             /\ h_failed' = h_failed \cup (IF tried /\ ~ok THEN {"fallback"} ELSE {})
    /\ h_pc' = "llm"
    /\ UNCHANGED <<h_args, h_stored, h_chunks, h_image_calls, h_outcome>>

\* main.py:699-720 / 1952-1975: the LLM is called with llm_messages
CallLLM ==
    /\ h_pc = "llm"
    /\ h_pc' = "done"
    /\ h_outcome' = "llm_called"
    /\ UNCHANGED <<h_args, h_stored, h_chunks, h_ctx, h_has_doc_context,
                   h_image_calls, h_failed>>

\* one step of a handler
ChatStep ==
    \/ StoreUserMessage
    \/ RetrieveForChat
    \/ InjectContext
    \/ ImageSearch
    \/ TextFallback
    \/ HardFallback
    \/ CallLLM

(***************************************************************************)
(* Claims about the chat handlers                                          *)
(***************************************************************************)
RetrievalSteps ==
    {"settings", "embedding", "vector", "rerank", "inject", "image",
     "image_sources", "text", "fallback"}

\* C14: in send_message and send_pool_message no failure of the retrieval
\* (settings lookup, query embedding, vector search, rerank, context
\* injection, image asset search) is surfaced: once the user message is
\* stored the handler goes on to the LLM call, with the context injected so
\* far, possibly none.
C14_RetrievalFailuresInvisible ==
    /\ h_outcome = "raised" => (~h_stored /\ h_failed \cap RetrievalSteps = {})
    /\ (h_stored /\ h_pc = "done") => h_outcome = "llm_called"
    /\ (h_stored /\ h_pc # "done") => ENABLED ChatStep
    /\ h_outcome = "llm_called" =>
          /\ h_stored
          /\ h_has_doc_context <=>
                (\E i \in 1..Len(h_ctx) : h_ctx[i] \in {"rag", "image", "text"})
                \/ (h_args.handler = "send_message" /\ "access_policy" \in Range(h_ctx)
                    /\ "documents" \in Range(h_ctx))

\* the vector search raised and the LLM was called with the text fallback
C14_Witness ==
    /\ h_outcome = "llm_called"
    /\ "vector" \in h_failed
    /\ "text" \in Range(h_ctx)

\* C19: with image mode 'off' neither handler ever issues an image asset
\* search, whatever the query, the intent and the chunks retrieved; with
\* image mode 'on' an image asset search is issued for every message.
C19_ImageModeDecides ==
    /\ h_args.image_mode = "off" => h_image_calls = <<>>
    /\ (h_args.image_mode = "on" /\ h_outcome = "llm_called" /\ h_stored) =>
          h_image_calls # <<>>

(***************************************************************************)
(* The plans of retrieve_chunks_with_strategy (rag.py:600-614) over the    *)
(* configurations config.py:34-35 can read from the environment            *)
(***************************************************************************)
MaxTopK == 12
\* the thresholds tried are the multiples of ThresholdStep thousandths
ThresholdStep == 10

PlanConfigs ==
    [top_k : 1..MaxTopK,
     threshold : {ThresholdStep * i : i \in 0..(1000 \div ThresholdStep)}]

PlansInit ==
    /\ p_cfg \in PlanConfigs
    /\ p_args \in [chat_id : {None, "c1"}, intent : {"fact", "summary"}]
    /\ p_plans = <<>>
    /\ p_pc = "start"

PlansIdle ==
    /\ p_cfg = [top_k |-> RAG_TOP_K, threshold |-> RAG_SIMILARITY_THRESHOLD]
    /\ p_args = [chat_id |-> None, intent |-> "fact"]
    /\ p_plans = <<>>
    /\ p_pc = "done"

\* rag.py:600-614
SelectPlans ==
    /\ p_pc = "start"
    /\ p_plans' = PlansFor(p_cfg.top_k, p_cfg.threshold, p_args.chat_id, p_args.intent)
    /\ p_pc' = "done"
    /\ UNCHANGED <<p_cfg, p_args>>

\* C17: in pool and global scope, for every RAG_TOP_K >= 1 and every
\* RAG_SIMILARITY_THRESHOLD in [0, 1], the fallback pass is never stricter
\* than the first pass: its top_k is at least, and its threshold at most,
\* that of the first pass, for the fact and the summary intent, and the
\* threshold of the first summary pass is no higher than the configured one.
C17_FallbackNeverStricter ==
    (/\ p_pc = "done"
     /\ p_args.chat_id = None
     /\ Len(p_plans) = 2) =>
        /\ p_plans[2].top_k >= p_plans[1].top_k
        /\ p_plans[2].threshold <= p_plans[1].threshold
        /\ p_args.intent = "summary" => p_plans[1].threshold <= p_cfg.threshold

(***************************************************************************)
(* Specifications                                                          *)
(***************************************************************************)
\* what each specification leaves alone
ChunkOnly == UNCHANGED <<r_vars, i_vars, h_vars, p_vars>>
RetrieveOnly == UNCHANGED <<ck_vars, i_vars, h_vars, p_vars>>
IngestOnly == UNCHANGED <<ck_vars, r_vars, h_vars, p_vars>>
ChatOnly == UNCHANGED <<ck_vars, r_vars, i_vars, p_vars>>
PlansOnly == UNCHANGED <<ck_vars, r_vars, i_vars, h_vars>>

ChunkNext == ChunkText /\ ChunkOnly

SpecChunkInit == ChunkInit /\ RetrieveIdle /\ IngestIdle /\ ChatIdle /\ PlansIdle

SpecChunk == SpecChunkInit /\ [][ChunkNext]_vars

RetrieveNext ==
    \/ VectorSearchReturns /\ RetrieveOnly
    \/ VectorSearchRaises /\ RetrieveOnly
    \/ KeywordDocs /\ RetrieveOnly
    \/ KeywordQuery /\ RetrieveOnly
    \/ KeywordDone /\ RetrieveOnly
    \/ PlanDone /\ RetrieveOnly
    \/ ApplyOptionalRerank /\ RetrieveOnly
    \/ CohereReturns /\ RetrieveOnly

SpecRetrieveInit == RetrieveInit /\ ChunkIdle /\ IngestIdle /\ ChatIdle /\ PlansIdle

SpecRetrieve == SpecRetrieveInit /\ [][RetrieveNext]_vars

IngestNext ==
    \/ \E d \in DocIds : UploadStart(d) /\ IngestOnly
    \/ \E d \in DocIds : UploadEmbedReturn(d) /\ IngestOnly
    \/ \E d \in DocIds : UploadPost(d) /\ IngestOnly
    \/ \E k \in TaskIds : AdminRechunk(k) /\ IngestOnly
    \/ \E k \in TaskIds : RechunkTaskStart(k) /\ IngestOnly
    \/ \E k \in TaskIds : RechunkDocBegin(k) /\ IngestOnly
    \/ \E k \in TaskIds : RechunkEmbedReturn(k) /\ IngestOnly
    \/ \E k \in TaskIds : RechunkReturn(k) /\ IngestOnly

SpecIngestInit == IngestInit /\ ChunkIdle /\ RetrieveIdle /\ ChatIdle /\ PlansIdle

SpecIngest == SpecIngestInit /\ [][IngestNext]_vars

RechunkNext ==
    \/ \E k \in RequestIds : AdminRechunk(k) /\ IngestOnly
    \/ \E k \in RequestIds : RechunkTaskStart(k) /\ IngestOnly
    \/ \E k \in RequestIds : RechunkDocBegin(k) /\ IngestOnly
    \/ \E k \in RequestIds : RechunkEmbedReturn(k) /\ IngestOnly
    \/ \E k \in RequestIds : RechunkReturn(k) /\ IngestOnly

SpecRechunkInit == RechunkInit /\ ChunkIdle /\ RetrieveIdle /\ ChatIdle /\ PlansIdle

SpecRechunk == SpecRechunkInit /\ [][RechunkNext]_vars

SpecRechunkLive ==
    SpecRechunk /\ \A k \in RequestIds : WF_vars(RechunkTaskStep(k) /\ IngestOnly)

ChatNext ==
    \/ StoreUserMessage /\ ChatOnly
    \/ RetrieveForChat /\ ChatOnly
    \/ InjectContext /\ ChatOnly
    \/ ImageSearch /\ ChatOnly
    \/ TextFallback /\ ChatOnly
    \/ HardFallback /\ ChatOnly
    \/ CallLLM /\ ChatOnly

SpecChatInit == ChatInit /\ ChunkIdle /\ RetrieveIdle /\ IngestIdle /\ PlansIdle

SpecChat == SpecChatInit /\ [][ChatNext]_vars

PlansNext == SelectPlans /\ PlansOnly

SpecPlansInit == PlansInit /\ ChunkIdle /\ RetrieveIdle /\ IngestIdle /\ ChatIdle

SpecPlans == SpecPlansInit /\ [][PlansNext]_vars

SplitNext == HardSplitIter /\ ChunkOnly

SpecSplitInit == SplitInit /\ RetrieveIdle /\ IngestIdle /\ ChatIdle /\ PlansIdle

SpecSplit == SpecSplitInit /\ [][SplitNext]_vars /\ WF_vars(SplitNext)

SpecOverlapInit == OverlapInit /\ RetrieveIdle /\ IngestIdle /\ ChatIdle /\ PlansIdle

SpecOverlap == SpecOverlapInit /\ [][ChunkNext]_vars

SpecNestedInit == NestedInit /\ RetrieveIdle /\ IngestIdle /\ ChatIdle /\ PlansIdle

SpecNested == SpecNestedInit /\ [][ChunkNext]_vars

SpecPagedInit == PagedInit /\ RetrieveIdle /\ IngestIdle /\ ChatIdle /\ PlansIdle

SpecPaged == SpecPagedInit /\ [][ChunkNext]_vars

WideNext ==
    \/ WideVectorSearch /\ RetrieveOnly
    \/ KeywordDocs /\ RetrieveOnly
    \/ WideKeywordQuery /\ RetrieveOnly
    \/ KeywordDone /\ RetrieveOnly
    \/ PlanDone /\ RetrieveOnly
    \/ ApplyOptionalRerank /\ RetrieveOnly

SpecWideInit == WideInit /\ ChunkIdle /\ IngestIdle /\ ChatIdle /\ PlansIdle

SpecWide == SpecWideInit /\ [][WideNext]_vars

SpecHeadedInit == HeadedInit /\ RetrieveIdle /\ IngestIdle /\ ChatIdle /\ PlansIdle

SpecHeaded == SpecHeadedInit /\ [][ChunkNext]_vars

Spec == SpecChunk
====
